---- MODULE Spec2Model ----
(***************************************************************************)
(* Model of paddlespeech/server/restful/tts_api.py: the four TTS endpoints *)
(* (tts_get, tts, stream_tts, get_samplerate), their parameter validation, *)
(* engine dispatch, exception mapping, HTTP Range handling and chunked     *)
(* streaming.                                                              *)
(*                                                                         *)
(* Strings that the code computes on (the Range header, save_path, the     *)
(* base64 text, the header values made by str() and "%d") are sequences of *)
(* one-character strings.  Fixed texts that are only passed around         *)
(* (messages, error codes, engine types) are TLA+ strings.                 *)
(***************************************************************************)
EXTENDS Integers, Sequences, FiniteSets, TLC

----------------------------------------------------------------------------
(* Bounds of the exploration. *)

\* longest generated tail after "bytes=" in a Range header
MaxTail == 3
\* most chunks the streaming engine yields for one request
MaxChunks == 2

----------------------------------------------------------------------------
(* Python values. *)

\* Optional[str]: None, or a string
None == [present |-> FALSE, str |-> << >>]
Some(s) == [present |-> TRUE, str |-> s]

\* float: a number, or NaN (every ordered comparison with NaN is False)
NaN == [nan |-> TRUE, v |-> 0]
Float(x) == [nan |-> FALSE, v |-> x]
FloatLE(a, k) == ~a.nan /\ a.v <= k
FloatGT(a, k) == ~a.nan /\ a.v > k

Min(a, b) == IF a < b THEN a ELSE b

Digits == <<"0", "1", "2", "3", "4", "5", "6", "7", "8", "9">>
IsDigit(c) == \E i \in 1..10 : Digits[i] = c
DigitValue(c) == (CHOOSE i \in 1..10 : Digits[i] = c) - 1

\* int(s) for a string of decimal digits
RECURSIVE int(_)
int(s) ==
    IF s = << >> THEN 0
    ELSE 10 * int(SubSeq(s, 1, Len(s) - 1)) + DigitValue(s[Len(s)])

RECURSIVE NatToStr(_)
NatToStr(n) ==
    IF n < 10 THEN <<Digits[n + 1]>>
    ELSE NatToStr(n \div 10) \o <<Digits[(n % 10) + 1]>>

\* str(n) and "%d" % n
str(n) == IF n < 0 THEN <<"-">> \o NatToStr(-n) ELSE NatToStr(n)

\* s.endswith(p)
endswith(s, p) ==
    Len(s) >= Len(p) /\ SubSeq(s, Len(s) - Len(p) + 1, Len(s)) = p

StartsWith(s, p) == Len(s) >= Len(p) /\ SubSeq(s, 1, Len(p)) = p

\* b[lo:hi] for lo, hi >= 0: both indices are clamped to len(b)
PySlice(b, lo, hi) ==
    LET l == Min(lo, Len(b))
        h == Min(hi, Len(b))
    IN  IF l >= h THEN << >> ELSE SubSeq(b, l + 1, h)

----------------------------------------------------------------------------
(* base64.b64decode(wav_base64).  Characters outside the alphabet are      *)
(* discarded; the engine outputs considered carry "=" only at the end.     *)

B64Alphabet ==
    <<"A", "B", "C", "D", "E", "F", "G", "H", "I", "J", "K", "L", "M",
      "N", "O", "P", "Q", "R", "S", "T", "U", "V", "W", "X", "Y", "Z",
      "a", "b", "c", "d", "e", "f", "g", "h", "i", "j", "k", "l", "m",
      "n", "o", "p", "q", "r", "s", "t", "u", "v", "w", "x", "y", "z",
      "0", "1", "2", "3", "4", "5", "6", "7", "8", "9", "+", "/">>
IsB64Char(c) == \E i \in 1..64 : B64Alphabet[i] = c
B64Value(c) == (CHOOSE i \in 1..64 : B64Alphabet[i] = c) - 1
IsPad(c) == c = "="

\* the bytes of a run of 6-bit values, four values making three bytes
RECURSIVE DecodeQuads(_)
DecodeQuads(v) ==
    IF Len(v) >= 4
    THEN <<v[1] * 4 + (v[2] \div 16),
           (v[2] % 16) * 16 + (v[3] \div 4),
           (v[3] % 4) * 64 + v[4]>> \o DecodeQuads(SubSeq(v, 5, Len(v)))
    ELSE IF Len(v) = 3
    THEN <<v[1] * 4 + (v[2] \div 16), (v[2] % 16) * 16 + (v[3] \div 4)>>
    ELSE IF Len(v) = 2
    THEN <<v[1] * 4 + (v[2] \div 16)>>
    ELSE << >>

\* [ok, bytes]: ok is FALSE where b64decode raises binascii.Error
b64decode(s) ==
    LET data == SelectSeq(s, IsB64Char)
        pads == Len(SelectSeq(s, IsPad))
        rem  == Len(data) % 4
        ok   == \/ rem = 0
                \/ rem = 2 /\ pads >= 2
                \/ rem = 3 /\ pads >= 1
    IN  IF ok
        THEN [ok |-> TRUE,
              bytes |-> DecodeQuads([i \in 1..Len(data) |-> B64Value(data[i])])]
        ELSE [ok |-> FALSE, bytes |-> << >>]

----------------------------------------------------------------------------
(* Responses. *)

\* failed_response(code, msg): the ErrorResponse shape; msg is "" where the
\* caller passes none
failed_response(code, msg) ==
    [kind |-> "error", success |-> FALSE, code |-> code, description |-> msg]

NoResponse == [kind |-> "none"]

SERVER_PARAM_ERR == "SERVER_PARAM_ERR"
SERVER_UNKOWN_ERR == "SERVER_UNKOWN_ERR"

SpeedMsg == "invalid speed value, the value should be between 0 and 3."
VolumeMsg == "invalid volume value, the value should be between 0 and 3."
SampleRateMsg ==
    "invalid sample_rate value, the choice of value is 0, 8000, 16000."
SavePathMsg == "invalid save_path, saved audio formats support pcm and wav"

Str_pcm == <<"p", "c", "m">>
Str_wav == <<"w", "a", "v">>
Str_bytes == <<"b", "y", "t", "e", "s">>
Str_keep_alive == <<"k", "e", "e", "p", "-", "a", "l", "i", "v", "e">>

\* the checks with the save_path check left out
CheckParametersNoSavePath(speed, volume, sample_rate, save_path) ==
    IF FloatLE(speed, 0) \/ FloatGT(speed, 3) THEN SpeedMsg
    ELSE IF FloatLE(volume, 0) \/ FloatGT(volume, 3) THEN VolumeMsg
    ELSE IF sample_rate \notin {0, 16000, 8000} THEN SampleRateMsg
    ELSE ""

\* "# Check parameters": the designated message of the first failing check,
\* or "" when all four pass
CheckParameters(speed, volume, sample_rate, save_path) ==
    IF FloatLE(speed, 0) \/ FloatGT(speed, 3) THEN SpeedMsg
    ELSE IF FloatLE(volume, 0) \/ FloatGT(volume, 3) THEN VolumeMsg
    ELSE IF sample_rate \notin {0, 16000, 8000} THEN SampleRateMsg
    ELSE IF /\ save_path.present
            /\ ~endswith(save_path.str, Str_pcm)
            /\ ~endswith(save_path.str, Str_wav) THEN SavePathMsg
    ELSE ""

----------------------------------------------------------------------------
(* The Range header. *)

BytesPrefix == <<"b", "y", "t", "e", "s", "=">>

\* length of the longest run of digits of s that starts at position i
RECURSIVE DigitRun(_, _)
DigitRun(s, i) ==
    IF i <= Len(s) /\ IsDigit(s[i]) THEN 1 + DigitRun(s, i + 1) ELSE 0

\* re.match(r'bytes=([0-9]+)\-(([0-9]+)?)', s): anchored at the start of s
\* only; both groups are greedy
HTTP_RANGE_HEADER(s) ==
    LET n1   == DigitRun(s, Len(BytesPrefix) + 1)
        dash == Len(BytesPrefix) + 1 + n1
        n2   == DigitRun(s, dash + 1)
    IN  IF /\ StartsWith(s, BytesPrefix)
           /\ n1 > 0
           /\ dash <= Len(s)
           /\ s[dash] = "-"
        THEN [matched |-> TRUE,
              group1 |-> SubSeq(s, Len(BytesPrefix) + 1, dash - 1),
              group2 |-> SubSeq(s, dash + 1, dash + n2)]
        ELSE [matched |-> FALSE, group1 |-> << >>, group2 |-> << >>]

EmptyHeaders == [n \in {} |-> << >>]

\* "bytes %d-%d/%d" % (a, b, c)
ContentRangeValue(a, b, c) ==
    Str_bytes \o <<" ">> \o str(a) \o <<"-">> \o str(b) \o <<"/">> \o str(c)

\* the slice of lines 130 and 134, with the end index excluded by mistake
RangeBodyExclusive(data_bytes, start, end) ==
    IF end < 0 THEN PySlice(data_bytes, start, Len(data_bytes))
    ELSE PySlice(data_bytes, start, end)

\* data_bytes[start:] (line 130) and data_bytes[start:end + 1] (line 134)
RangeBody(data_bytes, start, end) ==
    IF end < 0 THEN PySlice(data_bytes, start, Len(data_bytes))
    ELSE PySlice(data_bytes, start, end + 1)

\* lines 104-136 of tts_get: status code, headers and body for the decoded
\* buffer and the Range header; start and end are kept for inspection
ApplyRange(range, data_bytes) ==
    LET size == Len(data_bytes)
        m == HTTP_RANGE_HEADER(range.str)
        start == int(m.group1)
        end == IF Len(m.group2) > 0 THEN int(m.group2) ELSE -1
    IN  IF range.present /\ range.str # << >> /\ m.matched
        THEN [status_code |-> 206,
              headers |->
                [n \in {"Content-Length", "Accept-Ranges",
                        "Content-Range", "Connection"} |->
                    CASE n = "Content-Length" ->
                            IF end = -1 THEN str(size - start)
                            ELSE str(end - start + 1)
                      [] n = "Accept-Ranges" -> Str_bytes
                      [] n = "Content-Range" ->
                            IF end < 0
                            THEN ContentRangeValue(start, size - 1, size)
                            ELSE ContentRangeValue(start, end, size)
                      [] n = "Connection" -> Str_keep_alive],
              data_bytes |-> RangeBody(data_bytes, start, end),
              start |-> start,
              end |-> end]
        ELSE [status_code |-> 200,
              headers |-> EmptyHeaders,
              data_bytes |-> data_bytes,
              start |-> 0,
              end |-> -1]

----------------------------------------------------------------------------
(* State. *)

VARIABLES
    enginePool,          \* the process-wide engine pool read by get_engine_pool()
    clients,             \* the requests of this run
    pc,                  \* where each request's handler is
    req,                 \* each request's parameters
    connection_handler,  \* the handler object each request constructed (0: none)
    nextHandler,         \* identity of the next object the constructor makes
    runCall,             \* the call of connection_handler.run each request made
    result,              \* what run returned to each request
    exc,                 \* the exception raised in each request's handler
    window,              \* start and end of the range each request applied
    response,            \* what each handler returned
    lookups,             \* how often each request read the engine pool
    yielded,             \* the chunks the engine's generator has yielded
    sent                 \* the chunks handed to the transport

vars == <<enginePool, clients, pc, req, connection_handler, nextHandler,
          runCall, result, exc, window, response, lookups, yielded, sent>>

Requests == {1, 2}

\* one request at a time explores the full input sets; concurrent requests
\* draw from reduced ones
Single == Cardinality(clients) = 1

----------------------------------------------------------------------------
(* Inputs. *)

Texts == IF Single THEN {"hello", "ni hao"} ELSE {"hello"}
SpkIds == {0, 1}
Speeds ==
    IF Single THEN {Float(0), Float(1), Float(3), Float(4), NaN}
    ELSE {Float(0), Float(1)}
Volumes ==
    IF Single THEN {Float(0), Float(1), Float(3), Float(4), NaN}
    ELSE {Float(1)}
SampleRates == IF Single THEN {0, 8000, 16000, 44100} ELSE {0}
SavePaths ==
    IF Single
    THEN {None,
          Some(<<"a", ".", "w", "a", "v">>),
          Some(<<"p", "c", "m">>),
          Some(<<"a", ".", "m", "p", "3">>),
          Some(<< >>)}
    ELSE {None}

SeqsUpTo(S, n) == UNION {[1..k -> S] : k \in 0..n}

TailChars == {"1", "4", "-"}

\* Range header values sent by clients
Ranges ==
    IF Single
    THEN {None, Some(<< >>)}
         \cup {Some(BytesPrefix \o t) : t \in SeqsUpTo(TailChars, MaxTail)}
         \cup {Some(BytesPrefix \o <<"0", "-">>),
               Some(BytesPrefix \o <<"0", "-", "0">>),
               Some(BytesPrefix \o <<"0", "0", "2", "-">>),
               Some(BytesPrefix \o <<"1", "-", "2", ",", "3", "-", "4">>),
               Some(BytesPrefix \o <<"1", "-", "2", "x">>),
               Some(BytesPrefix \o <<"-", "5">>),
               Some(<<" ">> \o BytesPrefix \o <<"1", "-", "2">>),
               Some(<<"i", "t", "e", "m", "s", "=", "1", "-", "2">>)}
    ELSE {None, Some(BytesPrefix \o <<"1", "-">>)}

\* base64 texts the offline engine returns: 1, 3 and 5 bytes, and one with
\* incorrect padding
WavBase64s ==
    IF Single
    THEN {<<"A", "Q", "=", "=">>,
          <<"A", "Q", "I", "D">>,
          <<"A", "Q", "I", "D", "B", "A", "U", "=">>,
          <<"A", "Q", "I">>}
    ELSE {<<"A", "Q", "I", "D">>}

EngineResults ==
    {[ok |-> TRUE, lang |-> "zh", target_sample_rate |-> 24000,
      duration |-> 2, wav_base64 |-> w] : w \in WavBase64s}

NoResult ==
    [ok |-> FALSE, lang |-> "", target_sample_rate |-> 0, duration |-> 0,
     wav_base64 |-> << >>]

NoExc == [cls |-> "none", error_code |-> "", msg |-> ""]
KeyError == [cls |-> "KeyError", error_code |-> "", msg |-> "'tts'"]
SystemExit == [cls |-> "SystemExit", error_code |-> "", msg |-> "-1"]
BinasciiError ==
    [cls |-> "binascii.Error", error_code |-> "", msg |-> "Incorrect padding"]

\* what the engine collaborator may raise: classified and unclassified
EngineExceptions ==
    IF Single
    THEN {[cls |-> "ServerBaseException", error_code |-> "SERVER_INTERNAL_ERR",
           msg |-> "tts infer failed."],
          [cls |-> "ServerBaseException", error_code |-> "SERVER_PARAM_ERR",
           msg |-> "spk_id out of range."],
          [cls |-> "RuntimeError", error_code |-> "", msg |-> "out of memory"]}
    ELSE {[cls |-> "ServerBaseException", error_code |-> "SERVER_INTERNAL_ERR",
           msg |-> "tts infer failed."],
          [cls |-> "RuntimeError", error_code |-> "", msg |-> "out of memory"]}

Chunks == {"c1", "c2"}

EngineTypes == {"python", "inference", "online", "online-onnx", "other"}

EnginePools ==
    {[has_tts |-> FALSE, engine_type |-> "", sample_rate |-> 0]}
    \cup {[has_tts |-> TRUE, engine_type |-> t, sample_rate |-> 24000] :
            t \in EngineTypes}

NoRequest ==
    [endpoint |-> "none", text |-> "", spk_id |-> 0, speed |-> Float(1),
     volume |-> Float(1), sample_rate |-> 0, save_path |-> None,
     range |-> None]

NoCall == [called |-> FALSE, handler |-> 0, args |-> << >>]
NoWindow == [applied |-> FALSE, start |-> 0, end |-> -1]

----------------------------------------------------------------------------
(* Initial states: the pool is set up before serving; no request yet. *)

InitWith(cs) ==
    /\ enginePool \in EnginePools
    /\ clients = cs
    /\ pc = [r \in Requests |-> "idle"]
    /\ req = [r \in Requests |-> NoRequest]
    /\ connection_handler = [r \in Requests |-> 0]
    /\ nextHandler = 1
    /\ runCall = [r \in Requests |-> NoCall]
    /\ result = [r \in Requests |-> NoResult]
    /\ exc = [r \in Requests |-> NoExc]
    /\ window = [r \in Requests |-> NoWindow]
    /\ response = [r \in Requests |-> NoResponse]
    /\ lookups = [r \in Requests |-> 0]
    /\ yielded = [r \in Requests |-> << >>]
    /\ sent = [r \in Requests |-> << >>]

Init == InitWith({1})

InitConc == InitWith(Requests)

----------------------------------------------------------------------------
(* GET /paddlespeech/tts (tts_get) and POST /paddlespeech/tts (tts): the   *)
(* two handlers run the same steps up to the construction of the response. *)

Offline(r) == req[r].endpoint \in {"tts_get", "tts"}

\* A request arrives and its parameters are checked (tts_get lines 67-84,
\* tts lines 164-188).  The Range header of a GET is read at line 107 only
\* and is drawn there.
Check(r) ==
    /\ r \in clients
    /\ pc[r] = "idle"
    /\ \E ep \in {"tts_get", "tts"}, text \in Texts, spk_id \in SpkIds,
          speed \in Speeds, volume \in Volumes,
          sample_rate \in SampleRates, save_path \in SavePaths :
          LET msg == CheckParameters(speed, volume, sample_rate, save_path)
          IN  /\ req' = [req EXCEPT ![r] =
                            [endpoint |-> ep, text |-> text,
                             spk_id |-> spk_id, speed |-> speed,
                             volume |-> volume, sample_rate |-> sample_rate,
                             save_path |-> save_path, range |-> None]]
              /\ IF msg # ""
                 THEN /\ response' = [response EXCEPT ![r] =
                             failed_response(SERVER_PARAM_ERR, msg)]
                      /\ pc' = [pc EXCEPT ![r] = "returned"]
                 ELSE /\ pc' = [pc EXCEPT ![r] = "get_engine"]
                      /\ UNCHANGED response
    /\ UNCHANGED <<enginePool, clients, connection_handler, nextHandler,
                   runCall, result, exc, window, lookups, yielded, sent>>

\* engine_pool['tts'] and the dispatch on engine_type (lines 88-98): a
\* missing key raises KeyError, an engine type other than "python" and
\* "inference" raises SystemExit through sys.exit(-1)
GetEngine(r) ==
    /\ r \in clients
    /\ pc[r] = "get_engine"
    /\ Offline(r)
    /\ lookups' = [lookups EXCEPT ![r] = @ + 1]
    /\ IF ~enginePool.has_tts
       THEN /\ exc' = [exc EXCEPT ![r] = KeyError]
            /\ pc' = [pc EXCEPT ![r] = "except"]
       ELSE IF enginePool.engine_type \in {"python", "inference"}
       THEN /\ pc' = [pc EXCEPT ![r] = "construct"]
            /\ UNCHANGED exc
       ELSE /\ exc' = [exc EXCEPT ![r] = SystemExit]
            /\ pc' = [pc EXCEPT ![r] = "except"]
    /\ UNCHANGED <<enginePool, clients, req, connection_handler, nextHandler,
                   runCall, result, window, response, yielded, sent>>

\* one handler object kept and handed to every request
NewHandlerShared(next, r) == 1

\* the object a call of PaddleTTSConnectionHandler(tts_engine) makes: a new
\* one on every call
NewHandler(next, r) == next

\* connection_handler = PaddleTTSConnectionHandler(tts_engine) (line 100);
\* the constructor is the collaborator's and may raise
Construct(r) ==
    /\ r \in clients
    /\ pc[r] = "construct"
    /\ Offline(r)
    /\ \/ /\ connection_handler' =
                [connection_handler EXCEPT ![r] = NewHandler(nextHandler, r)]
          /\ nextHandler' = nextHandler + 1
          /\ pc' = [pc EXCEPT ![r] = "run"]
          /\ UNCHANGED exc
       \/ /\ \E e \in EngineExceptions : exc' = [exc EXCEPT ![r] = e]
          /\ pc' = [pc EXCEPT ![r] = "except"]
          /\ UNCHANGED <<connection_handler, nextHandler>>
    /\ UNCHANGED <<enginePool, clients, req, runCall, result, window,
                   response, lookups, yielded, sent>>

\* the arguments of connection_handler.run (lines 101-102)
RunArgs(q) ==
    [text |-> q.text, spk_id |-> q.spk_id, speed |-> q.speed,
     volume |-> q.volume, sample_rate |-> q.sample_rate,
     save_path |-> q.save_path]

\* connection_handler.run(...) (lines 101-102): returns a result or raises
Run(r) ==
    /\ r \in clients
    /\ pc[r] = "run"
    /\ Offline(r)
    /\ runCall' = [runCall EXCEPT ![r] =
            [called |-> TRUE, handler |-> connection_handler[r],
             args |-> RunArgs(req[r])]]
    /\ \/ /\ \E res \in EngineResults : result' = [result EXCEPT ![r] = res]
          /\ pc' = [pc EXCEPT ![r] = "respond"]
          /\ UNCHANGED exc
       \/ /\ \E e \in EngineExceptions : exc' = [exc EXCEPT ![r] = e]
          /\ pc' = [pc EXCEPT ![r] = "except"]
          /\ UNCHANGED result
    /\ UNCHANGED <<enginePool, clients, req, connection_handler, nextHandler,
                   window, response, lookups, yielded, sent>>

\* lines 103-139 of tts_get: decode, apply the Range header, build the
\* StreamingResponse over the buffer
tts_get_respond(r) ==
    /\ r \in clients
    /\ pc[r] = "respond"
    /\ req[r].endpoint = "tts_get"
    /\ \E range \in Ranges :
          LET d == b64decode(result[r].wav_base64)
              w == ApplyRange(range, d.bytes)
          IN  /\ req' = [req EXCEPT ![r].range = range]
              /\ IF d.ok
                 THEN /\ response' = [response EXCEPT ![r] =
                             [kind |-> "binary",
                              status_code |-> w.status_code,
                              headers |-> w.headers,
                              body |-> w.data_bytes,
                              media_type |-> "audio/wav"]]
                      /\ window' = [window EXCEPT ![r] =
                             [applied |-> w.status_code = 206,
                              start |-> w.start, end |-> w.end]]
                      /\ pc' = [pc EXCEPT ![r] = "returned"]
                      /\ UNCHANGED exc
                 ELSE /\ exc' = [exc EXCEPT ![r] = BinasciiError]
                      /\ pc' = [pc EXCEPT ![r] = "except"]
                      /\ UNCHANGED <<response, window>>
    /\ UNCHANGED <<enginePool, clients, connection_handler, nextHandler,
                   runCall, result, lookups, yielded, sent>>

\* lines 209-225 of tts: the JSON result with the base64 text as returned
tts_respond(r) ==
    /\ r \in clients
    /\ pc[r] = "respond"
    /\ req[r].endpoint = "tts"
    /\ response' = [response EXCEPT ![r] =
            [kind |-> "json", success |-> TRUE, code |-> 200,
             description |-> "success.",
             result |->
                [lang |-> result[r].lang,
                 spk_id |-> req[r].spk_id,
                 speed |-> req[r].speed,
                 volume |-> req[r].volume,
                 sample_rate |-> result[r].target_sample_rate,
                 duration |-> result[r].duration,
                 save_path |-> req[r].save_path,
                 audio |-> result[r].wav_base64]]]
    /\ pc' = [pc EXCEPT ![r] = "returned"]
    /\ UNCHANGED <<enginePool, clients, req, connection_handler, nextHandler,
                   runCall, result, exc, window, lookups, yielded, sent>>

\* the except clauses with the exception's text passed on to the client
ExceptResponseLeaking(e) ==
    IF e.cls = "ServerBaseException"
    THEN failed_response(e.error_code, e.msg)
    ELSE failed_response(SERVER_UNKOWN_ERR, e.msg)

\* the two except clauses (lines 140-144, 226-230)
ExceptResponse(e) ==
    IF e.cls = "ServerBaseException"
    THEN failed_response(e.error_code, e.msg)
    ELSE failed_response(SERVER_UNKOWN_ERR, "")

Except(r) ==
    /\ r \in clients
    /\ pc[r] = "except"
    /\ Offline(r)
    /\ response' = [response EXCEPT ![r] = ExceptResponse(exc[r])]
    /\ pc' = [pc EXCEPT ![r] = "returned"]
    /\ UNCHANGED <<enginePool, clients, req, connection_handler, nextHandler,
                   runCall, result, exc, window, lookups, yielded, sent>>

----------------------------------------------------------------------------
(* POST /paddlespeech/tts/streaming (stream_tts): no try statement; what   *)
(* is raised leaves the handler (pc "raised").                             *)

\* lines 238-251: the request arrives; engine_pool['tts'] and the dispatch
\* on engine_type
stream_tts_get_engine(r) ==
    /\ r \in clients
    /\ pc[r] = "idle"
    /\ \E text \in Texts, spk_id \in SpkIds, speed \in Speeds,
          volume \in Volumes, sample_rate \in SampleRates,
          save_path \in SavePaths :
          req' = [req EXCEPT ![r] =
                    [endpoint |-> "stream_tts", text |-> text,
                     spk_id |-> spk_id, speed |-> speed, volume |-> volume,
                     sample_rate |-> sample_rate, save_path |-> save_path,
                     range |-> None]]
    /\ lookups' = [lookups EXCEPT ![r] = @ + 1]
    /\ IF ~enginePool.has_tts
       THEN /\ exc' = [exc EXCEPT ![r] = KeyError]
            /\ pc' = [pc EXCEPT ![r] = "raised"]
       ELSE IF enginePool.engine_type \in {"online", "online-onnx"}
       THEN /\ pc' = [pc EXCEPT ![r] = "stream_construct"]
            /\ UNCHANGED exc
       ELSE /\ exc' = [exc EXCEPT ![r] = SystemExit]
            /\ pc' = [pc EXCEPT ![r] = "raised"]
    /\ UNCHANGED <<enginePool, clients, connection_handler, nextHandler,
                   runCall, result, window, response, yielded, sent>>

\* line 253
stream_tts_construct(r) ==
    /\ r \in clients
    /\ pc[r] = "stream_construct"
    /\ \/ /\ connection_handler' =
                [connection_handler EXCEPT ![r] = NewHandler(nextHandler, r)]
          /\ nextHandler' = nextHandler + 1
          /\ pc' = [pc EXCEPT ![r] = "stream_return"]
          /\ UNCHANGED exc
       \/ /\ \E e \in EngineExceptions : exc' = [exc EXCEPT ![r] = e]
          /\ pc' = [pc EXCEPT ![r] = "raised"]
          /\ UNCHANGED <<connection_handler, nextHandler>>
    /\ UNCHANGED <<enginePool, clients, req, runCall, result, window,
                   response, lookups, yielded, sent>>

\* run called with the default speaker instead of the request's
StreamRunArgsDefaultSpk(q) == [sentence |-> q.text, spk_id |-> 0]

\* the arguments of connection_handler.run (line 256)
StreamRunArgs(q) == [sentence |-> q.text, spk_id |-> q.spk_id]

\* lines 255-256: run(...) makes the generator, which is handed to
\* StreamingResponse unconsumed; the handler returns
stream_tts_return(r) ==
    /\ r \in clients
    /\ pc[r] = "stream_return"
    /\ runCall' = [runCall EXCEPT ![r] =
            [called |-> TRUE, handler |-> connection_handler[r],
             args |-> StreamRunArgs(req[r])]]
    /\ response' = [response EXCEPT ![r] =
            [kind |-> "stream", status_code |-> 200]]
    /\ pc' = [pc EXCEPT ![r] = "stream_next"]
    /\ UNCHANGED <<enginePool, clients, req, connection_handler, nextHandler,
                   result, exc, window, lookups, yielded, sent>>

\* StreamingResponse iterating its body: the next chunk is asked of the
\* generator, which yields one, ends, or raises
stream_next(r) ==
    /\ r \in clients
    /\ pc[r] = "stream_next"
    /\ \/ /\ Len(yielded[r]) < MaxChunks
          /\ \E c \in Chunks : yielded' = [yielded EXCEPT ![r] = Append(@, c)]
          /\ pc' = [pc EXCEPT ![r] = "stream_send"]
          /\ UNCHANGED exc
       \/ /\ pc' = [pc EXCEPT ![r] = "stream_done"]
          /\ UNCHANGED <<yielded, exc>>
       \/ /\ \E e \in EngineExceptions : exc' = [exc EXCEPT ![r] = e]
          /\ pc' = [pc EXCEPT ![r] = "stream_failed"]
          /\ UNCHANGED yielded
    /\ UNCHANGED <<enginePool, clients, req, connection_handler, nextHandler,
                   runCall, result, window, response, lookups, sent>>

\* the chunk just yielded is handed to the transport
stream_send(r) ==
    /\ r \in clients
    /\ pc[r] = "stream_send"
    /\ sent' = [sent EXCEPT ![r] = Append(@, yielded[r][Len(yielded[r])])]
    /\ pc' = [pc EXCEPT ![r] = "stream_next"]
    /\ UNCHANGED <<enginePool, clients, req, connection_handler, nextHandler,
                   runCall, result, exc, window, response, lookups, yielded>>

----------------------------------------------------------------------------
(* GET /paddlespeech/tts/streaming/samplerate (lines 261-275). *)

get_samplerate(r) ==
    /\ r \in clients
    /\ pc[r] = "idle"
    /\ req' = [req EXCEPT ![r] = [NoRequest EXCEPT !.endpoint = "get_samplerate"]]
    /\ lookups' = [lookups EXCEPT ![r] = @ + 1]
    /\ IF enginePool.has_tts
       THEN /\ response' = [response EXCEPT ![r] =
                   [kind |-> "samplerate",
                    sample_rate |-> enginePool.sample_rate]]
            /\ UNCHANGED exc
       ELSE /\ exc' = [exc EXCEPT ![r] = KeyError]
            /\ response' = [response EXCEPT ![r] = ExceptResponse(KeyError)]
    /\ pc' = [pc EXCEPT ![r] = "returned"]
    /\ UNCHANGED <<enginePool, clients, connection_handler, nextHandler,
                   runCall, result, window, yielded, sent>>

----------------------------------------------------------------------------

Next ==
    \E r \in Requests :
        \/ Check(r)
        \/ GetEngine(r)
        \/ Construct(r)
        \/ Run(r)
        \/ tts_get_respond(r)
        \/ tts_respond(r)
        \/ Except(r)
        \/ stream_tts_get_engine(r)
        \/ stream_tts_construct(r)
        \/ stream_tts_return(r)
        \/ stream_next(r)
        \/ stream_send(r)
        \/ get_samplerate(r)

Spec == Init /\ [][Next]_vars

SpecConc == InitConc /\ [][Next]_vars

TypeOK ==
    /\ enginePool \in EnginePools
    /\ clients \subseteq Requests
    /\ \A r \in Requests : lookups[r] \in 0..1

----------------------------------------------------------------------------
(* The Range grammar of the interface, bytes=<digits>-<digits?>, read     *)
(* over the whole header value, and the numbers it denotes.                *)

\* position of the "-" that splits a conforming value; 0 when h does not conform
GrammarDash(h) ==
    LET ks == {k \in (Len(BytesPrefix) + 2)..Len(h) :
                 /\ SubSeq(h, 1, Len(BytesPrefix)) = BytesPrefix
                 /\ h[k] = "-"
                 /\ \A i \in (Len(BytesPrefix) + 1)..(k - 1) : IsDigit(h[i])
                 /\ \A i \in (k + 1)..Len(h) : IsDigit(h[i])}
    IN  IF ks = {} THEN 0 ELSE CHOOSE k \in ks : TRUE

Conforms(h) == GrammarDash(h) # 0

RECURSIVE Pow10(_)
Pow10(n) == IF n = 0 THEN 1 ELSE 10 * Pow10(n - 1)

\* the number a digit string denotes, most significant digit first
RECURSIVE Decimal(_)
Decimal(s) ==
    IF s = << >> THEN 0
    ELSE DigitValue(Head(s)) * Pow10(Len(s) - 1) + Decimal(Tail(s))

GrammarStart(h) == Decimal(SubSeq(h, Len(BytesPrefix) + 1, GrammarDash(h) - 1))
GrammarHasEnd(h) == GrammarDash(h) < Len(h)
GrammarEnd(h) == Decimal(SubSeq(h, GrammarDash(h) + 1, Len(h)))

\* the bytes of buf at the 0-based positions lo..hi that buf has
BytesAt(buf, lo, hi) ==
    LET n == Cardinality({i \in 0..(Len(buf) - 1) : lo <= i /\ i <= hi})
    IN  [j \in 1..n |-> buf[lo + j]]

\* the buffer a GET request's engine result decodes to
Decoded(r) == b64decode(result[r].wav_base64).bytes

\* a GET request that got through the engine call and the decoding
GetServed(r) ==
    /\ r \in clients
    /\ req[r].endpoint = "tts_get"
    /\ pc[r] = "returned"
    /\ result[r].ok
    /\ b64decode(result[r].wav_base64).ok

----------------------------------------------------------------------------
\* C1: a GET whose engine call succeeded and whose Range header is
\* bytes=<start>-<end?> is answered with status 206, Accept-Ranges "bytes"
\* and Connection "keep-alive"; without <end> the body is the buffer from
\* start on, Content-Length is str(size - start) and Content-Range is
\* "bytes start-(size-1)/size"; with <end> the body is the bytes of the
\* buffer at the positions start..end, Content-Length is str(end - start + 1)
\* and Content-Range is "bytes start-end/size".
C1_RangeResponse ==
    \A r \in Requests :
        (GetServed(r) /\ req[r].range.present /\ Conforms(req[r].range.str)) =>
            LET h == req[r].range.str
                size == Len(Decoded(r))
                start == GrammarStart(h)
                end == GrammarEnd(h)
                rsp == response[r]
            IN  /\ rsp.kind = "binary"
                /\ rsp.status_code = 206
                /\ DOMAIN rsp.headers = {"Content-Length", "Accept-Ranges",
                                         "Content-Range", "Connection"}
                /\ rsp.headers["Accept-Ranges"] = <<"b", "y", "t", "e", "s">>
                /\ rsp.headers["Connection"] =
                        <<"k", "e", "e", "p", "-", "a", "l", "i", "v", "e">>
                /\ IF GrammarHasEnd(h)
                   THEN /\ rsp.body = BytesAt(Decoded(r), start, end)
                        /\ rsp.headers["Content-Length"] = str(end - start + 1)
                        /\ rsp.headers["Content-Range"] =
                               <<"b", "y", "t", "e", "s", " ">> \o str(start)
                               \o <<"-">> \o str(end) \o <<"/">> \o str(size)
                   ELSE /\ rsp.body = BytesAt(Decoded(r), start, size - 1)
                        /\ rsp.headers["Content-Length"] = str(size - start)
                        /\ rsp.headers["Content-Range"] =
                               <<"b", "y", "t", "e", "s", " ">> \o str(start)
                               \o <<"-">> \o str(size - 1) \o <<"/">>
                               \o str(size)

\* a five-byte buffer asked for with "bytes=1-4": bytes 2..5 of it, 4 of 5
C1_Witness ==
    \E r \in Requests :
        /\ GetServed(r)
        /\ req[r].range = Some(<<"b", "y", "t", "e", "s", "=", "1", "-", "4">>)
        /\ Decoded(r) = <<1, 2, 3, 4, 5>>
        /\ response[r].status_code = 206
        /\ response[r].body = <<2, 3, 4, 5>>
        /\ response[r].headers["Content-Length"] = <<"4">>
        /\ response[r].headers["Content-Range"] =
              <<"b", "y", "t", "e", "s", " ", "1", "-", "4", "/", "5">>

----------------------------------------------------------------------------
(* Parameter validation as the interface states it. *)

\* x lies in the interval (0, 3]
InOpenClosed(x) == ~x.nan /\ 0 < x.v /\ x.v <= 3

\* save_path is absent or ends in "pcm" or "wav"
SavePathOk(sp) ==
    \/ ~sp.present
    \/ (Len(sp.str) >= 3 /\
        SubSeq(sp.str, Len(sp.str) - 2, Len(sp.str))
            \in {<<"p", "c", "m">>, <<"w", "a", "v">>})

\* the message designated for the first rule a request violates, "" if none
FirstViolation(q) ==
    IF ~InOpenClosed(q.speed)
    THEN "invalid speed value, the value should be between 0 and 3."
    ELSE IF ~InOpenClosed(q.volume)
    THEN "invalid volume value, the value should be between 0 and 3."
    ELSE IF q.sample_rate \notin {0, 8000, 16000}
    THEN "invalid sample_rate value, the choice of value is 0, 8000, 16000."
    ELSE IF ~SavePathOk(q.save_path)
    THEN "invalid save_path, saved audio formats support pcm and wav"
    ELSE ""

\* the request has been let through the checks
Accepted(r) == pc[r] # "returned" \/ lookups[r] > 0

\* C2: GET and POST /paddlespeech/tts check speed in (0,3], volume in (0,3],
\* sample_rate in {0, 8000, 16000} and save_path (if present) ending in
\* "pcm" or "wav", in this order; a request violating a rule is answered
\* with SERVER_PARAM_ERR and the message of the first rule it violates, and
\* a request violating none is let through.
C2_ValidationOrder ==
    \A r \in Requests :
        Offline(r) =>
            IF FirstViolation(req[r]) # ""
            THEN /\ pc[r] = "returned"
                 /\ response[r] =
                        [kind |-> "error", success |-> FALSE,
                         code |-> "SERVER_PARAM_ERR",
                         description |-> FirstViolation(req[r])]
            ELSE Accepted(r)

\* the same with speed and volume restricted to numbers: what holds of the
\* checks for every value that is not NaN
C2_ValidationOrderOfNumbers ==
    \A r \in Requests :
        (Offline(r) /\ ~req[r].speed.nan /\ ~req[r].volume.nan) =>
            IF FirstViolation(req[r]) # ""
            THEN /\ pc[r] = "returned"
                 /\ response[r] =
                        [kind |-> "error", success |-> FALSE,
                         code |-> "SERVER_PARAM_ERR",
                         description |-> FirstViolation(req[r])]
            ELSE Accepted(r)

----------------------------------------------------------------------------
\* one of the four checks of the handler fails for the request
FailsCheck(q) ==
    \/ FloatLE(q.speed, 0)
    \/ FloatGT(q.speed, 3)
    \/ FloatLE(q.volume, 0)
    \/ FloatGT(q.volume, 3)
    \/ q.sample_rate \notin {0, 16000, 8000}
    \/ (q.save_path.present /\ ~endswith(q.save_path.str, Str_pcm)
                            /\ ~endswith(q.save_path.str, Str_wav))

EngineWork(r) ==
    lookups[r] > 0 \/ connection_handler[r] # 0 \/ runCall[r].called

\* C3: a GET or POST /paddlespeech/tts request that fails a parameter check
\* never causes engine work: the pool is not looked up, no handler is
\* constructed, run is not invoked; the engine is reached only by requests
\* that passed all four checks.
C3_NoEngineWorkOnInvalid ==
    \A r \in Requests :
        Offline(r) =>
            /\ FailsCheck(req[r]) =>
                   (~EngineWork(r) /\ pc[r] = "returned"
                    /\ response[r].kind = "error"
                    /\ response[r].code = "SERVER_PARAM_ERR")
            /\ EngineWork(r) => ~FailsCheck(req[r])

\* a request with a bad save_path only has been answered without engine work
C3_Witness ==
    \E r \in Requests :
        /\ Offline(r)
        /\ pc[r] = "returned"
        /\ InOpenClosed(req[r].speed)
        /\ InOpenClosed(req[r].volume)
        /\ req[r].sample_rate = 8000
        /\ req[r].save_path = Some(<<"a", ".", "m", "p", "3">>)
        /\ response[r].kind = "error"
        /\ ~EngineWork(r)

----------------------------------------------------------------------------
\* C4: a GET with a successful engine call whose Range header is absent or
\* does not conform to bytes=<digits>-<digits?> is answered with status 200,
\* the complete decoded buffer and none of the four range headers.
C4_NonConformingIsAbsent ==
    \A r \in Requests :
        (GetServed(r) /\
         (~req[r].range.present \/ ~Conforms(req[r].range.str))) =>
            /\ response[r].kind = "binary"
            /\ response[r].status_code = 200
            /\ response[r].body = Decoded(r)
            /\ DOMAIN response[r].headers = {}

\* C5: every range window applied for a 206 response has start < totalSize,
\* and 0 <= start <= end < totalSize when end >= 0; the Content-Length of
\* every 206 response is positive and is the number of bytes of the body.
C5_RangeWindowInvariant ==
    \A r \in Requests :
        (GetServed(r) /\ response[r].status_code = 206) =>
            LET size == Len(Decoded(r))
            IN  /\ window[r].applied
                /\ window[r].start < size
                /\ window[r].end >= 0 =>
                       (0 <= window[r].start /\ window[r].start <= window[r].end
                        /\ window[r].end < size)
                /\ Len(response[r].body) > 0
                /\ response[r].headers["Content-Length"] =
                       str(Len(response[r].body))

----------------------------------------------------------------------------
\* C6: in GET and POST /paddlespeech/tts a ServerBaseException raised after
\* validation yields an error response with exactly its error_code and msg;
\* any other exception yields an error response with SERVER_UNKOWN_ERR and
\* nothing of the exception; either way the handler returns and never raises.
C6_ExceptionMapping ==
    \A r \in Requests :
        Offline(r) =>
            /\ pc[r] # "raised"
            /\ exc[r].cls # "none" => pc[r] \in {"except", "returned"}
            /\ (exc[r].cls # "none" /\ pc[r] = "returned") =>
                   IF exc[r].cls = "ServerBaseException"
                   THEN response[r] =
                            [kind |-> "error", success |-> FALSE,
                             code |-> exc[r].error_code,
                             description |-> exc[r].msg]
                   ELSE /\ response[r].kind = "error"
                        /\ response[r].success = FALSE
                        /\ response[r].code = "SERVER_UNKOWN_ERR"
                        /\ response[r].description = ""

\* run raised a classified exception and the handler returned its code
C6_Witness ==
    \E r \in Requests :
        /\ Offline(r)
        /\ pc[r] = "returned"
        /\ runCall[r].called
        /\ exc[r].cls = "ServerBaseException"
        /\ response[r].kind = "error"
        /\ response[r].code = "SERVER_INTERNAL_ERR"
        /\ response[r].description = "tts infer failed."

----------------------------------------------------------------------------
\* C7: on every endpoint no exception raised while looking up the engine,
\* dispatching on its type, constructing the handler or invoking the engine
\* leaves the endpoint handler; each is turned into an error response.
C7_NoExceptionEscapes ==
    \A r \in Requests :
        /\ pc[r] # "raised"
        /\ (exc[r].cls # "none" /\ pc[r] \notin {"except"}) =>
               response[r].kind = "error"

\* C8: a GET or POST /paddlespeech/tts with valid parameters on an engine
\* whose engine_type is neither "python" nor "inference" never succeeds, and
\* its outcome differs from a parameter error, from an engine error and from
\* the generic unknown-error response.
C8_ConfigurationErrorDistinct ==
    \A r \in Requests :
        (/\ Offline(r)
         /\ enginePool.has_tts
         /\ enginePool.engine_type \notin {"python", "inference"}
         /\ ~FailsCheck(req[r])
         /\ pc[r] = "returned") =>
            /\ connection_handler[r] = 0
            /\ ~runCall[r].called
            /\ response[r].kind \notin {"binary", "json"}
            /\ ~(response[r].kind = "error" /\
                 response[r].code = "SERVER_PARAM_ERR")
            /\ response[r] \notin {ExceptResponse(e) : e \in EngineExceptions}
            /\ response[r] # [kind |-> "error", success |-> FALSE,
                              code |-> "SERVER_UNKOWN_ERR", description |-> ""]

----------------------------------------------------------------------------
Streaming(r) ==
    /\ req[r].endpoint = "stream_tts"
    /\ enginePool.has_tts
    /\ enginePool.engine_type \in {"online", "online-onnx"}

IsPrefix(a, b) == Len(a) <= Len(b) /\ SubSeq(b, 1, Len(a)) = a

\* C9: POST /paddlespeech/tts/streaming on an "online" or "online-onnx"
\* engine checks no parameter (it never answers with an error response,
\* whatever speed, volume, sample_rate and save_path are), invokes run with
\* exactly the request's text and spk_id, and its body is the chunks the
\* engine yields, in order, each once, chunk k handed to the transport
\* before chunk k+1 is asked of the engine.
C9_StreamingChunks ==
    \A r \in Requests :
        Streaming(r) =>
            /\ response[r].kind \in {"none", "stream"}
            /\ runCall[r].called =>
                   /\ runCall[r].args =
                          [sentence |-> req[r].text, spk_id |-> req[r].spk_id]
                   /\ runCall[r].handler = connection_handler[r]
                   /\ response[r].kind = "stream"
            /\ ~runCall[r].called => yielded[r] = << >>
            /\ IsPrefix(sent[r], yielded[r])
            /\ Len(yielded[r]) <= Len(sent[r]) + 1
            /\ pc[r] \in {"stream_next", "stream_done", "stream_failed"} =>
                   sent[r] = yielded[r]
            /\ pc[r] = "stream_send" => Len(yielded[r]) = Len(sent[r]) + 1

\* a streaming request with speed 0 and a bad save_path has had two
\* different chunks delivered in the order yielded, and its stream has ended
C9_Witness ==
    \E r \in Requests :
        /\ Streaming(r)
        /\ pc[r] = "stream_done"
        /\ req[r].speed = Float(0)
        /\ req[r].save_path = Some(<<"a", ".", "m", "p", "3">>)
        /\ req[r].spk_id = 1
        /\ Len(sent[r]) >= 2
        /\ sent[r][1] = "c2"
        /\ sent[r][2] = "c1"
        /\ sent[r] = yielded[r]

----------------------------------------------------------------------------
\* what the response of a returned request is, given only the request's own
\* parameters, its own Range header and the outcome of its own engine call
OwnOutcome(r) ==
    IF req[r].endpoint = "get_samplerate"
    THEN response[r].kind \in {"samplerate", "error"}
    ELSE IF req[r].endpoint = "stream_tts"
    THEN response[r].kind = "stream"
    ELSE IF FailsCheck(req[r])
    THEN response[r].kind = "error" /\ response[r].code = "SERVER_PARAM_ERR"
    ELSE IF exc[r].cls # "none"
    THEN /\ response[r].kind = "error"
         /\ response[r].code =
                (IF exc[r].cls = "ServerBaseException"
                 THEN exc[r].error_code ELSE "SERVER_UNKOWN_ERR")
    ELSE IF req[r].endpoint = "tts"
    THEN /\ response[r].kind = "json"
         /\ response[r].result.audio = result[r].wav_base64
         /\ response[r].result.spk_id = req[r].spk_id
    ELSE /\ response[r].kind = "binary"
         /\ response[r].status_code =
                ApplyRange(req[r].range, Decoded(r)).status_code
         /\ response[r].headers =
                ApplyRange(req[r].range, Decoded(r)).headers
         /\ response[r].body =
                ApplyRange(req[r].range, Decoded(r)).data_bytes

C10_Isolated ==
    /\ \A r1, r2 \in Requests :
           (r1 # r2 /\ connection_handler[r1] # 0) =>
               connection_handler[r1] # connection_handler[r2]
    /\ \A r \in Requests :
           /\ runCall[r].called =>
                  (runCall[r].handler = connection_handler[r]
                   /\ connection_handler[r] # 0)
           /\ pc[r] = "returned" => OwnOutcome(r)

\* a step of the handlers leaves the engine pool as it is, and leaves every
\* request whose handler did not move exactly as it was
C10_Step ==
    /\ enginePool' = enginePool
    /\ \A r \in Requests :
           pc'[r] = pc[r] =>
               /\ req'[r] = req[r]
               /\ connection_handler'[r] = connection_handler[r]
               /\ runCall'[r] = runCall[r]
               /\ result'[r] = result[r]
               /\ exc'[r] = exc[r]
               /\ window'[r] = window[r]
               /\ response'[r] = response[r]
               /\ yielded'[r] = yielded[r]
               /\ sent'[r] = sent[r]

\* C10: under every interleaving of concurrent requests each request that
\* reaches the engine has a handler object of its own, no handler step
\* writes the engine pool, and a request's response is the one its own
\* parameters, Range header and engine outcome give; no step of one request
\* changes anything of another.
C10_RequestIsolation == [](C10_Isolated) /\ [][C10_Step]_vars

\* two requests in flight at once, both with a handler, have both returned,
\* one with a 206 slice and one with the JSON result
C10_Witness ==
    /\ connection_handler[1] # 0
    /\ connection_handler[2] # 0
    /\ pc[1] = "returned"
    /\ pc[2] = "returned"
    /\ response[1].kind = "binary"
    /\ response[1].status_code = 206
    /\ response[2].kind = "json"

====
